---- MODULE Spec2Model ----
(***************************************************************************)
(* Model of the Dojo integration layer of bevy_dojo_starter:               *)
(*   src/constants/dojo.rs   DojoConfig, SPAWN_SELECTOR, MOVE_SELECTOR     *)
(*   src/demo/dojo/mod.rs    DojoSystemState, setup_dojo_config,           *)
(*                           handle_dojo_setup                             *)
(*   src/demo/dojo/intro.rs  EntityTracker, Player, Position,              *)
(*                           handle_keyboard_input, on_dojo_events,        *)
(*                           update_player_position                        *)
(*                                                                         *)
(* One action per Bevy system.  A frame of the Update schedule is          *)
(*   on_dojo_events ; update_player_position ; <deferred commands applied> *)
(* and the Dojo plugin (an external crate) delivers its events between     *)
(* two runs of on_dojo_events.  A panic of a system ends the process.      *)
(***************************************************************************)
EXTENDS Integers, Sequences, FiniteSets, TLC

VARIABLES
    pc,                 \* position of the scheduler (see PcValues)
    env_use_dev,        \* value of the USE_DEV_ACCOUNT environment variable
    config,             \* DojoSystemState.config (the fields the systems read)
    torii_connected,    \* DojoSystemState.torii_connected
    account_connected,  \* DojoSystemState.account_connected
    last_error,         \* DojoSystemState.last_error
    state_changed,      \* DojoSystemState was added or written since log_dojo_status ran
    setup_report,       \* the closing log line of handle_dojo_setup
    statusLog,          \* what log_dojo_status reported, run by run
    dojoCalls,          \* connection calls made on DojoResource, in order
    retrieveCalls,      \* number of DojoResource::queue_retrieve_entities calls
    subscriptions,      \* number of DojoResource::subscribe_entities calls
    txQueue,            \* transactions handed to DojoResource::queue_tx, in order
    keysRead,           \* KeyboardInput events read by handle_keyboard_input
    evInitialized,      \* Events<DojoInitializedEvent>: number written so far
    initCursor,         \* on_dojo_events' reader position in evInitialized
    evEntityUpdated,    \* Events<DojoEntityUpdated>: every record written so far
    entityCursor,       \* on_dojo_events' reader position in evEntityUpdated
    evPositionUpdated,  \* Events<PositionUpdatedEvent>: every event written so far
    positionCursor,     \* update_player_position's reader position
    existing_entities,  \* EntityTracker.existing_entities
    commands,           \* deferred spawn commands not yet applied to the world
    world,              \* entities with (Transform, Player), in spawn order
    handled,            \* per record reached by on_dojo_events: what it did
    viewLog             \* per PositionUpdatedEvent read: the branch taken

vars == << pc, env_use_dev, config, torii_connected, account_connected,
           last_error, state_changed, setup_report, statusLog, dojoCalls,
           retrieveCalls, subscriptions, txQueue, keysRead, evInitialized, initCursor, evEntityUpdated, entityCursor,
           evPositionUpdated, positionCursor, existing_entities, commands,
           world, handled, viewLog >>

connVars == << env_use_dev, config, torii_connected, account_connected,
               last_error, state_changed, setup_report, statusLog, dojoCalls >>

inputVars == << subscriptions, txQueue, keysRead >>

syncVars == << retrieveCalls, evInitialized, initCursor, evEntityUpdated,
               entityCursor, evPositionUpdated, positionCursor,
               existing_entities, commands, world, handled, viewLog >>

-----------------------------------------------------------------------------
(* Bounds of the model *)

\* total number of DojoEntityUpdated records the plugin delivers in a run
MaxRecords == 3

\* total number of KeyboardInput events delivered in a run
MaxKeys == 2

-----------------------------------------------------------------------------
(* Values *)

\* Felt::ZERO, the identifier emitted once when a subscription is initialised
FeltZero == 0

\* the non-zero identifiers used by the inputs
NonZeroFelts == {7}

PlayerId == CHOOSE f \in NonZeroFelts : TRUE

Felts == {FeltZero} \cup NonZeroFelts

\* Option<T>
None == [some |-> FALSE]

Some(v) == [some |-> TRUE, val |-> v]

\* a field of a dojo_types Struct: a primitive of some kind, or not a primitive
Prim(kind, val) == [kind |-> kind, val |-> val]

Address(v) == Prim("ContractAddress", v)

U32(v) == Prim("U32", v)

NonPrimitive == Prim("Struct", 0)

\* a model of a record: a named Struct, children given as a function on names
Model(name, children) == [name |-> name, children |-> children]

\* well-formed di-Position models
PositionModel(player, x, y) ==
    Model("di-Position", [player |-> Address(player), x |-> U32(x), y |-> U32(y)])

PosA == PositionModel(PlayerId, 3, 4)

PosB == PositionModel(PlayerId, 5, 4)

PosZero == PositionModel(FeltZero, 3, 4)

\* di-Position models that the schema does not guarantee: a missing field,
\* a primitive of another kind, a member that is no primitive
PosNoY == Model("di-Position", [player |-> Address(PlayerId), x |-> U32(3)])

PosBadX ==
    Model("di-Position", [player |-> Address(PlayerId), x |-> Address(3), y |-> U32(4)])

PosBadPlayer ==
    Model("di-Position", [player |-> NonPrimitive, x |-> U32(3), y |-> U32(4)])

MovesModel == Model("di-Moves", [player |-> Address(PlayerId), remaining |-> U32(9)])

OtherModel == Model("di-Score", [player |-> Address(PlayerId)])

\* a DojoEntityUpdated event
Record(entity_id, models) == [entity_id |-> entity_id, models |-> models]

ModelLists ==
    { <<PosA>>, <<PosB>>, <<PosZero>>,
      <<PosA, OtherModel>>, <<OtherModel, PosB>>, <<PosA, MovesModel, PosB>>,
      <<PosNoY>>, <<PosBadX>>, <<PosBadPlayer>>, <<PosNoY, PosA>> }

\* the records the plugin may deliver: the sentinel record, here with a model
\* that cannot be decoded and one that can, and records of a real entity
Records ==
    {Record(FeltZero, <<PosNoY, PosA>>)}
        \cup {Record(PlayerId, ms) : ms \in ModelLists}

-----------------------------------------------------------------------------
(* impl From<&Struct> for Position  (intro.rs 197-223) *)

\* Struct::get: the child of that name, if any
Get(struct_value, name) ==
    IF name \in DOMAIN struct_value.children
    THEN Some(struct_value.children[name])
    ELSE None

\* Ty::as_primitive
AsPrimitive(ty) == IF ty.kind # "Struct" THEN Some(ty) ELSE None

\* Primitive::as_contract_address
AsContractAddress(p) == IF p.kind = "ContractAddress" THEN Some(p.val) ELSE None

\* Primitive::as_u32
AsU32(p) == IF p.kind = "U32" THEN Some(p.val) ELSE None

\* get(name).unwrap().as_primitive().unwrap(): None where an unwrap panics
GetPrimitive(struct_value, name) ==
    LET child == Get(struct_value, name)
    IN  IF child.some THEN AsPrimitive(child.val) ELSE None

\* mutant of PositionFrom: a missing or mistyped y becomes u32::default()
PositionFrom_DefaultY(struct_value) ==
    LET pp == GetPrimitive(struct_value, "player")
        player == IF pp.some THEN AsContractAddress(pp.val) ELSE None
        px == GetPrimitive(struct_value, "x")
        x == IF px.some THEN AsU32(px.val) ELSE None
        py == GetPrimitive(struct_value, "y")
        y == IF py.some THEN AsU32(py.val) ELSE None
    IN  IF ~player.some THEN None
        ELSE IF ~x.some THEN None
        ELSE Some([player |-> player.val, x |-> x.val,
                   y |-> IF y.some THEN y.val ELSE 0])

\* Position::from: Some(Position), or None where one of its unwraps panics
PositionFrom(struct_value) ==
    LET pp == GetPrimitive(struct_value, "player")
        player == IF pp.some THEN AsContractAddress(pp.val) ELSE None
        px == GetPrimitive(struct_value, "x")
        x == IF px.some THEN AsU32(px.val) ELSE None
        py == GetPrimitive(struct_value, "y")
        y == IF py.some THEN AsU32(py.val) ELSE None
    IN  IF ~player.some THEN None
        ELSE IF ~x.some THEN None
        ELSE IF ~y.some THEN None
        ELSE Some([player |-> player.val, x |-> x.val, y |-> y.val])

-----------------------------------------------------------------------------
(* DojoConfig::default  (constants/dojo.rs 15-48) *)

\* values of the USE_DEV_ACCOUNT environment variable: unset, or a string
EnvValues == {None, Some("false")}

\* env::var(..).unwrap_or_else(|_| default)
EnvOr(value, default) == IF value.some THEN value.val ELSE default

\* the fields of DojoConfig::default() that the systems branch on or pass on
DojoConfigDefault(use_dev) ==
    [ action_address  |-> "ACTION_ADDRESS",
      use_dev_account |-> (EnvOr(use_dev, "true") = "true") ]

-----------------------------------------------------------------------------
(* Scheduler positions *)

PcValues ==
    { "setup_dojo_config",      \* Startup: setup_dojo_config runs next
      "handle_dojo_setup",      \* Startup: handle_dojo_setup runs next
      "frame",                  \* Update: on_dojo_events runs next
      "update_player_position", \* Update: update_player_position runs next
      "apply_deferred",         \* end of Update: deferred commands are applied
      "panicked" }              \* a system panicked: the process is gone

Init ==
    /\ pc = "setup_dojo_config"
    /\ env_use_dev \in EnvValues
    /\ config = DojoConfigDefault(env_use_dev)
    /\ torii_connected = FALSE
    /\ account_connected = FALSE
    /\ last_error = None
    /\ state_changed = TRUE
    /\ setup_report = "none"
    /\ statusLog = << >>
    /\ dojoCalls = << >>
    /\ retrieveCalls = 0
    /\ subscriptions = 0
    /\ txQueue = << >>
    /\ keysRead = << >>
    /\ evInitialized = 0
    /\ initCursor = 0
    /\ evEntityUpdated = << >>
    /\ entityCursor = 0
    /\ evPositionUpdated = << >>
    /\ positionCursor = 0
    /\ existing_entities = {}
    /\ commands = << >>
    /\ world = << >>
    /\ handled = << >>
    /\ viewLog = << >>

-----------------------------------------------------------------------------
(* Startup schedule  (mod.rs 16-73) *)

\* setup_dojo_config: reloads the configuration from the environment
SetupDojoConfig ==
    /\ pc = "setup_dojo_config"
    /\ config' = DojoConfigDefault(env_use_dev)
    /\ state_changed' = TRUE
    /\ pc' = "handle_dojo_setup"
    /\ UNCHANGED << env_use_dev, torii_connected, account_connected, last_error,
                    setup_report, statusLog, dojoCalls >>
    /\ UNCHANGED inputVars
    /\ UNCHANGED syncVars

\* mutant of ConnectsAccount: the account is connected whatever the flag says
ConnectsAccount_Always(cfg) == TRUE

\* whether handle_dojo_setup initiates the account connection
ConnectsAccount(cfg) == cfg.use_dev_account

\* mutant of SetupSucceeded: a setup without the dev account counts as failed
SetupSucceeded_NeedsAccount(torii, account, cfg) == torii /\ account

\* the condition of the closing `if` of handle_dojo_setup
SetupSucceeded(torii, account, cfg) == torii /\ (account \/ ~cfg.use_dev_account)

\* handle_dojo_setup: initiates the Torii connection, then the account's, and
\* logs how the setup went
HandleDojoSetup ==
    /\ pc = "handle_dojo_setup"
    /\ torii_connected' = TRUE
    /\ IF ConnectsAccount(config)
       THEN /\ dojoCalls' = dojoCalls \o << "connect_torii", "connect_predeployed_account" >>
            /\ account_connected' = TRUE
       ELSE /\ dojoCalls' = Append(dojoCalls, "connect_torii")
            /\ UNCHANGED account_connected
    /\ setup_report' = IF SetupSucceeded(torii_connected', account_connected', config)
                       THEN "initialized"
                       ELSE "connection issues"
    /\ state_changed' = TRUE
    /\ pc' = "frame"
    /\ UNCHANGED << env_use_dev, config, last_error, statusLog >>
    /\ UNCHANGED inputVars
    /\ UNCHANGED syncVars

-----------------------------------------------------------------------------
(* log_dojo_status  (mod.rs 19-22, 75-88) *)

\* mutant of ErrorLine: the error line is written whether or not an error is set
ErrorLine_Always(error) == Some("Dojo Error")

\* `if let Some(error) = &dojo_state.last_error`: the error line, if one is written
ErrorLine(error) == IF error.some THEN Some(error.val) ELSE None

\* the match on (torii_connected, account_connected)
ConnectionStatus(torii, account) ==
    IF torii /\ account THEN "FullyConnected"
    ELSE IF torii THEN "ToriiOnly"
    ELSE IF account THEN "AccountOnly"
    ELSE "Disconnected"

\* log_dojo_status.run_if(resource_changed::<DojoSystemState>).  The system
\* has no ordering constraint and writes nothing the others read; the model
\* runs it first in its frame (see StatusLogged).
LogDojoStatus ==
    /\ pc = "frame"
    /\ state_changed
    /\ statusLog' = Append(statusLog,
           [error |-> ErrorLine(last_error),
            status |-> ConnectionStatus(torii_connected, account_connected)])
    /\ state_changed' = FALSE
    /\ UNCHANGED << pc, env_use_dev, config, torii_connected, account_connected,
                    last_error, setup_report, dojoCalls >>
    /\ UNCHANGED inputVars
    /\ UNCHANGED syncVars

\* log_dojo_status has run in this frame, if its run condition held
StatusLogged == ~state_changed

-----------------------------------------------------------------------------
(* The Dojo plugin, as the systems see it: it writes DojoInitializedEvent    *)
(* once the Torii connection asked for by connect_torii is up, and a         *)
(* DojoEntityUpdated per record that a query or a subscription returns.      *)

\* number of calls of that name made on DojoResource
CallCount(name) == Cardinality({i \in DOMAIN dojoCalls : dojoCalls[i] = name})

DeliverInitialized ==
    /\ pc = "frame"
    /\ evInitialized < CallCount("connect_torii")
    /\ evInitialized' = evInitialized + 1
    /\ UNCHANGED << pc, retrieveCalls, initCursor, evEntityUpdated, entityCursor,
                    evPositionUpdated, positionCursor, existing_entities,
                    commands, world, handled, viewLog >>
    /\ UNCHANGED connVars
    /\ UNCHANGED inputVars

DeliverEntityUpdated(record) ==
    /\ pc = "frame"
    /\ retrieveCalls > 0 \/ subscriptions > 0
    /\ Len(evEntityUpdated) < MaxRecords
    /\ evEntityUpdated' = Append(evEntityUpdated, record)
    /\ UNCHANGED << pc, retrieveCalls, evInitialized, initCursor, entityCursor,
                    evPositionUpdated, positionCursor, existing_entities,
                    commands, world, handled, viewLog >>
    /\ UNCHANGED connVars
    /\ UNCHANGED inputVars

-----------------------------------------------------------------------------
(* on_dojo_events  (intro.rs 127-185) *)

\* mutant of ReadEvents: the unread events, newest first
ReadEvents_NewestFirst(buffer, cursor) ==
    [i \in 1..(Len(buffer) - cursor) |-> Len(buffer) + 1 - i]

\* EventReader::read: the events written since the reader's last run, oldest
\* first, each with its index in the buffer
ReadEvents(buffer, cursor) == [i \in 1..(Len(buffer) - cursor) |-> cursor + i]

\* mutant of InitialFetches: the query is issued on every run of the system
InitialFetches_EveryRun(unread) == 1

\* one queue_retrieve_entities call per DojoInitializedEvent read
InitialFetches(unread) == unread

\* mutant of IsSentinel: no record is skipped
IsSentinel_Never(entity_id) == FALSE

\* the record is the marker a subscription emits when it is set up
IsSentinel(entity_id) == entity_id = FeltZero

\* mutant of ArmOf: an unknown model is ignored without a report
ArmOf_UnknownIgnored(name) ==
    IF name = "di-Position" THEN "position" ELSE "ignored"

\* the arm of `match m.name.as_str()` that a model name selects
ArmOf(name) ==
    IF name = "di-Position" THEN "position"
    ELSE IF name = "di-Moves" THEN "ignored"
    ELSE "not_handled"

\* one turn of `for m in &ev.models`: acc is what the record did so far
DispatchModel(acc, m, src, idx) ==
    LET arm == ArmOf(m.name)
        decoded == PositionFrom(m)
    IN  IF arm = "position"
        THEN IF decoded.some
             THEN [acc EXCEPT !.written = Append(@, [pos |-> decoded.val, src |-> src, idx |-> idx]),
                              !.dispatched = @ + 1]
             ELSE [acc EXCEPT !.panicked = TRUE]
        ELSE IF arm = "ignored"
        THEN [acc EXCEPT !.dispatched = @ + 1]
        ELSE [acc EXCEPT !.reports = @ + 1, !.dispatched = @ + 1]

RECURSIVE DispatchModels(_, _, _, _)
DispatchModels(models, idx, src, acc) ==
    IF idx > Len(models) \/ acc.panicked
    THEN acc
    ELSE DispatchModels(models, idx + 1, src, DispatchModel(acc, models[idx], src, idx))

\* one turn of `for ev in ev_retrieve_entities.read()`: the events it writes
\* and the entry of `handled` that describes it
HandleRecord(record, src, upto) ==
    IF IsSentinel(record.entity_id)
    THEN [written |-> << >>, reports |-> 0, dispatched |-> 0, panicked |-> FALSE,
          skipped |-> TRUE, src |-> src, upto |-> upto]
    ELSE LET acc == DispatchModels(record.models, 1, src,
                        [written |-> << >>, reports |-> 0, dispatched |-> 0,
                         panicked |-> FALSE, skipped |-> FALSE, src |-> src,
                         upto |-> upto])
         IN  acc

RECURSIVE HandleRecords(_, _, _, _)
HandleRecords(buffer, unread, k, done) ==
    IF k > Len(unread) \/ (done # << >> /\ done[Len(done)].panicked)
    THEN done
    ELSE HandleRecords(buffer, unread, k + 1,
             Append(done, HandleRecord(buffer[unread[k]], unread[k], unread[Len(unread)])))

\* the events of all the entries, in order
RECURSIVE Written(_)
Written(done) ==
    IF done = << >> THEN << >> ELSE done[1].written \o Written(Tail(done))

OnDojoEvents ==
    /\ pc = "frame"
    /\ StatusLogged
    /\ LET done == HandleRecords(evEntityUpdated,
                       ReadEvents(evEntityUpdated, entityCursor), 1, << >>)
           panicked == done # << >> /\ done[Len(done)].panicked
       IN  /\ retrieveCalls' = retrieveCalls + InitialFetches(evInitialized - initCursor)
           /\ initCursor' = evInitialized
           /\ evPositionUpdated' = evPositionUpdated \o Written(done)
           /\ handled' = handled \o done
           /\ entityCursor' = entityCursor + Len(done)
           /\ pc' = IF panicked THEN "panicked" ELSE "update_player_position"
    /\ UNCHANGED << evInitialized, evEntityUpdated, positionCursor,
                    existing_entities, commands, world, viewLog >>
    /\ UNCHANGED connVars
    /\ UNCHANGED inputVars

-----------------------------------------------------------------------------
(* update_player_position  (intro.rs 93-121) *)

\* `x as f32`: exact for the coordinates of the model, all below 2^24
AsF32(v) == v

\* mutant of MarkSeen: the identifier is not inserted
MarkSeen_Forgets(tracker, player) == tracker

\* mutant of MarkSeen: the tracker keeps only the newest identifier
MarkSeen_Replaces(tracker, player) == {player}

\* entity_tracker.existing_entities.insert(player)
MarkSeen(tracker, player) == tracker \cup {player}

\* the entities the query yields whose Player.id is that identifier
Matching(entities, player) == {i \in DOMAIN entities : entities[i].id = player}

\* one turn of `for ev in ev_position_updated.read()`.  st holds the tracker,
\* the command queue, the entities the query sees and the log.  A spawn is a
\* deferred command: the query of this run does not see the new entity.
ApplyPositionUpdate(st, ev) ==
    LET player == ev.pos.player
        x == AsF32(ev.pos.x)
        y == AsF32(ev.pos.y)
    IN  IF player \notin st.tracker
        THEN [st EXCEPT
                 !.commands = Append(@, [id |-> player, x |-> x, y |-> y]),
                 !.tracker = MarkSeen(@, player),
                 !.log = Append(@, [op |-> "create", id |-> player, x |-> x, y |-> y,
                                    src |-> ev.src, idx |-> ev.idx, hits |-> 0])]
        ELSE [st EXCEPT
                 !.world = [i \in DOMAIN @ |->
                               IF @[i].id = player
                               THEN [@[i] EXCEPT !.x = x, !.y = y]
                               ELSE @[i]],
                 !.log = Append(@, [op |-> "move", id |-> player, x |-> x, y |-> y,
                                    src |-> ev.src, idx |-> ev.idx,
                                    hits |-> Cardinality(Matching(st.world, player))])]

RECURSIVE ApplyPositionUpdates(_, _, _, _)
ApplyPositionUpdates(buffer, unread, k, st) ==
    IF k > Len(unread)
    THEN st
    ELSE ApplyPositionUpdates(buffer, unread, k + 1,
             ApplyPositionUpdate(st, buffer[unread[k]]))

UpdatePlayerPosition ==
    /\ pc = "update_player_position"
    /\ LET st == ApplyPositionUpdates(evPositionUpdated,
                     ReadEvents(evPositionUpdated, positionCursor), 1,
                     [tracker |-> existing_entities, commands |-> commands,
                      world |-> world, log |-> viewLog])
       IN  /\ existing_entities' = st.tracker
           /\ commands' = st.commands
           /\ world' = st.world
           /\ viewLog' = st.log
    /\ positionCursor' = Len(evPositionUpdated)
    /\ pc' = "apply_deferred"
    /\ UNCHANGED << retrieveCalls, evInitialized, initCursor, evEntityUpdated,
                    entityCursor, evPositionUpdated, handled >>
    /\ UNCHANGED connVars
    /\ UNCHANGED inputVars

\* mutant of Spawned: the queued spawns are dropped
Spawned_Dropped(entities, queued) == entities

\* the world once the queued `commands.spawn((..., Player { id }))` are applied
Spawned(entities, queued) == entities \o queued

\* the end of the Update schedule: the queued spawn commands create their
\* entities, in the order they were queued
ApplyDeferred ==
    /\ pc = "apply_deferred"
    /\ world' = Spawned(world, commands)
    /\ commands' = << >>
    /\ pc' = "frame"
    /\ UNCHANGED << retrieveCalls, evInitialized, initCursor, evEntityUpdated,
                    entityCursor, evPositionUpdated, positionCursor,
                    existing_entities, handled, viewLog >>
    /\ UNCHANGED connVars
    /\ UNCHANGED inputVars

-----------------------------------------------------------------------------
(* handle_keyboard_input  (intro.rs 42-89) *)

KeyCodes == {"Space", "KeyS", "ArrowLeft", "ArrowRight", "ArrowUp", "ArrowDown", "KeyA"}

ArrowKeys == {"ArrowLeft", "ArrowRight", "ArrowUp", "ArrowDown"}

KeyEvents == [key_code : KeyCodes, state : {"Pressed", "Released"}]

\* selector!("spawn") and selector!("move")  (constants/dojo.rs 51-52)
SPAWN_SELECTOR == "spawn"

MOVE_SELECTOR == "move"

\* mutant of IsPressed: a release counts as a press
IsPressed_AnyState(event) == TRUE

\* event.state == ButtonState::Pressed
IsPressed(event) == event.state = "Pressed"

\* mutant of Direction: up and down exchanged
Direction_UpDownSwapped(key_code) ==
    IF key_code = "ArrowLeft" THEN Some(0)
    ELSE IF key_code = "ArrowRight" THEN Some(1)
    ELSE IF key_code = "ArrowUp" THEN Some(3)
    ELSE IF key_code = "ArrowDown" THEN Some(2)
    ELSE None

\* the inner match of the arrow arm: None where it reaches panic!
Direction(key_code) ==
    IF key_code = "ArrowLeft" THEN Some(0)
    ELSE IF key_code = "ArrowRight" THEN Some(1)
    ELSE IF key_code = "ArrowUp" THEN Some(2)
    ELSE IF key_code = "ArrowDown" THEN Some(3)
    ELSE None

\* starknet Call
Call(to, selector, calldata) == [to |-> to, selector |-> selector, calldata |-> calldata]

\* mutant of SpawnCalls: the spawn call carries an argument
SpawnCalls_WithArgument(cfg) == << Call(cfg.action_address, SPAWN_SELECTOR, << 0 >>) >>

\* the `calls` of the Space arm
SpawnCalls(cfg) == << Call(cfg.action_address, SPAWN_SELECTOR, << >>) >>

\* the `calls` of the arrow arm; Felt::from(direction) keeps the value
MoveCalls(cfg, direction) == << Call(cfg.action_address, MOVE_SELECTOR, << direction >>) >>

\* one turn of `for event in keyboard_input_events.read()`
DispatchKey(st, event) ==
    LET is_pressed == IsPressed(event)
    IN  IF event.key_code = "Space" /\ is_pressed
        THEN [st EXCEPT !.tx = Append(@, SpawnCalls(config))]
        ELSE IF event.key_code = "KeyS" /\ is_pressed
        THEN [st EXCEPT !.subs = @ + 1]
        ELSE IF event.key_code \in ArrowKeys /\ is_pressed
        THEN LET direction == Direction(event.key_code)
             IN  IF direction.some
                 THEN [st EXCEPT !.tx = Append(@, MoveCalls(config, direction.val))]
                 ELSE [st EXCEPT !.panicked = TRUE]
        ELSE st

RECURSIVE DispatchKeys(_, _, _)
DispatchKeys(batch, k, st) ==
    IF k > Len(batch) \/ st.panicked
    THEN st
    ELSE DispatchKeys(batch, k + 1, DispatchKey(st, batch[k]))

\* the sequences over S of length 1..n
SeqsUpTo(S, n) == UNION {[1..m -> S] : m \in 1..n}

HandleKeyboardInput(batch) ==
    /\ pc = "frame"
    /\ StatusLogged
    /\ Len(keysRead) + Len(batch) <= MaxKeys
    /\ LET st == DispatchKeys(batch, 1,
                     [tx |-> txQueue, subs |-> subscriptions, panicked |-> FALSE])
       IN  /\ txQueue' = st.tx
           /\ subscriptions' = st.subs
           /\ pc' = IF st.panicked THEN "panicked" ELSE pc
    /\ keysRead' = keysRead \o batch
    /\ UNCHANGED connVars
    /\ UNCHANGED syncVars

-----------------------------------------------------------------------------
(* Specifications *)

\* the synchronisation pipeline: start-up, the plugin's events and the two
\* systems that turn them into entities
Next ==
    \/ SetupDojoConfig
    \/ HandleDojoSetup
    \/ LogDojoStatus
    \/ DeliverInitialized
    \/ \E record \in Records : DeliverEntityUpdated(record)
    \/ OnDojoEvents
    \/ UpdatePlayerPosition
    \/ ApplyDeferred

Spec == Init /\ [][Next]_vars

\* the record the plugin delivers under SpecInput
InputRecords == {Record(PlayerId, <<PosA>>)}

\* the whole program with the keyboard system in front: every system runs,
\* the keyboard events vary, and the plugin delivers at most one record
NextInput ==
    \/ SetupDojoConfig
    \/ HandleDojoSetup
    \/ LogDojoStatus
    \/ \E batch \in SeqsUpTo(KeyEvents, MaxKeys) : HandleKeyboardInput(batch)
    \/ DeliverInitialized
    \/ \E record \in InputRecords :
          evEntityUpdated = << >> /\ DeliverEntityUpdated(record)
    \/ OnDojoEvents
    \/ UpdatePlayerPosition
    \/ ApplyDeferred

SpecInput == Init /\ [][NextInput]_vars

-----------------------------------------------------------------------------
(* Vocabulary of the properties *)

\* the record that arrived k-th
RecordAt(k) == evEntityUpdated[k]

\* the model a PositionUpdatedEvent or an instruction was decoded from
SourceModel(e) == RecordAt(e.src).models[e.idx]

\* the PositionUpdatedEvents written for the record that arrived k-th
EventsFrom(k) == {i \in DOMAIN evPositionUpdated : evPositionUpdated[i].src = k}

\* the instructions issued for the record that arrived k-th
InstructionsFrom(k) == {i \in DOMAIN viewLog : viewLog[i].src = k}

\* the instructions issued for an identifier
InstructionsFor(id) == {i \in DOMAIN viewLog : viewLog[i].id = id}

\* a child of the struct is a primitive of that kind
HasField(m, name, kind) ==
    /\ name \in DOMAIN m.children
    /\ m.children[name].kind = kind

\* a di-Position model with the three fields of the Cairo model
DecodablePosition(m) ==
    /\ m.name = "di-Position"
    /\ HasField(m, "player", "ContractAddress")
    /\ HasField(m, "x", "U32")
    /\ HasField(m, "y", "U32")

\* a di-Position model that lacks a field or has one of another kind
UndecodablePosition(m) == m.name = "di-Position" /\ ~DecodablePosition(m)

\* the record has a model that cannot be decoded
HasUndecodable(record) ==
    \E j \in DOMAIN record.models : UndecodablePosition(record.models[j])

\* the record that arrived k-th was not the last one of its frame
HasSuccessorInFrame(k) == k < handled[k].upto

-----------------------------------------------------------------------------
(* C1 *)

\* C1: the first Position Update of an identifier issues a create and marks
\* the identifier seen; every later update of that identifier, in the same
\* frame or a later one, takes the move branch, so an identifier is created
\* at most once.
C1_CreateOnceThenMove ==
    /\ Len(viewLog) = positionCursor
    /\ \A id \in Felts :
          /\ id \in existing_entities <=> InstructionsFor(id) # {}
          /\ \A i \in InstructionsFor(id) :
                viewLog[i].op = "create" <=> (\A j \in InstructionsFor(id) : i <= j)
          /\ Cardinality({i \in InstructionsFor(id) : viewLog[i].op = "create"}) <= 1

\* an identifier created, moved in the frame of its creation and moved again
\* by a record of a later frame
C1_Witness ==
    \E i, j, k \in DOMAIN viewLog :
        /\ i < j /\ j < k
        /\ viewLog[i].id = viewLog[j].id /\ viewLog[j].id = viewLog[k].id
        /\ viewLog[i].op = "create" /\ viewLog[j].op = "move" /\ viewLog[k].op = "move"
        /\ handled[viewLog[i].src].upto = handled[viewLog[j].src].upto
        /\ handled[viewLog[j].src].upto < handled[viewLog[k].src].upto

-----------------------------------------------------------------------------
(* C2 *)

\* C2: a record whose entity identifier is Felt::ZERO writes no
\* PositionUpdatedEvent and causes no create or move, whatever its models,
\* and the record that follows it in the frame is reached.
C2_SentinelRecordIgnored ==
    \A k \in DOMAIN handled :
        RecordAt(k).entity_id = FeltZero =>
            /\ EventsFrom(k) = {}
            /\ InstructionsFrom(k) = {}
            /\ handled[k].dispatched = 0
            /\ ~handled[k].panicked
            /\ HasSuccessorInFrame(k) => k < Len(handled)

\* a sentinel record carrying a well-formed Position model, followed in its
\* frame by a record that got its entity created
C2_Witness ==
    \E k \in DOMAIN handled :
        /\ RecordAt(k).entity_id = FeltZero
        /\ \E j \in DOMAIN RecordAt(k).models : DecodablePosition(RecordAt(k).models[j])
        /\ HasSuccessorInFrame(k)
        /\ InstructionsFrom(k + 1) # {}

-----------------------------------------------------------------------------
(* C3 *)

\* C3: Felt::ZERO is never a real entity: it is never in the Entity Tracker
\* and no visual entity, spawned or about to be, carries it.
C3_ZeroNeverAnEntity ==
    /\ FeltZero \notin existing_entities
    /\ \A i \in DOMAIN world : world[i].id # FeltZero
    /\ \A i \in DOMAIN commands : commands[i].id # FeltZero

-----------------------------------------------------------------------------
(* C4 *)

\* the last instruction issued for an identifier
LastInstructionFor(id) ==
    viewLog[CHOOSE i \in InstructionsFor(id) : \A j \in InstructionsFor(id) : j <= i]

\* C4: once the deferred spawns of a frame are applied, the visual entity of
\* every identifier is at the coordinates of the last Position Update
\* processed for it.
C4_EntityAtLastUpdate ==
    pc = "frame" =>
        \A id \in Felts :
            InstructionsFor(id) # {} =>
                /\ Matching(world, id) # {}
                /\ \A i \in Matching(world, id) :
                      /\ world[i].x = LastInstructionFor(id).x
                      /\ world[i].y = LastInstructionFor(id).y

-----------------------------------------------------------------------------
(* C5 *)

\* C5: a di-Position model that lacks a field or has one of the wrong kind
\* makes the decoding panic; every PositionUpdatedEvent and every instruction
\* carries the player, x and y found in the model it was decoded from.
C5_DecodeFailsExplicitly ==
    /\ \A i \in DOMAIN evPositionUpdated :
          LET e == evPositionUpdated[i]
              m == SourceModel(e)
          IN  /\ DecodablePosition(m)
              /\ m.children["player"].val = e.pos.player
              /\ m.children["x"].val = e.pos.x
              /\ m.children["y"].val = e.pos.y
    /\ \A i \in DOMAIN viewLog :
          LET e == viewLog[i]
              m == SourceModel(e)
          IN  /\ DecodablePosition(m)
              /\ m.children["player"].val = e.id
              /\ m.children["x"].val = e.x
              /\ m.children["y"].val = e.y
    /\ \A k \in DOMAIN handled :
          handled[k].panicked <=>
              (RecordAt(k).entity_id # FeltZero /\ HasUndecodable(RecordAt(k)))
    /\ pc = "panicked" <=> (handled # << >> /\ handled[Len(handled)].panicked)

\* the decoding of a Position model without y panicked, in a record whose
\* other Position model is well formed
C5_Witness ==
    /\ pc = "panicked"
    /\ LET r == RecordAt(Len(handled))
       IN  /\ \E j \in DOMAIN r.models : "y" \notin DOMAIN r.models[j].children
           /\ \E j \in DOMAIN r.models : DecodablePosition(r.models[j])
    /\ EventsFrom(Len(handled)) = {}

-----------------------------------------------------------------------------
(* C6 *)

\* C6: a record with a Position model that cannot be decoded does not stop
\* the stream: its decodable sibling models still produce their events, the
\* records after it in the frame are reached, and the systems keep running.
C6_DecodeFailureDoesNotInterrupt ==
    \A k \in DOMAIN handled :
        (RecordAt(k).entity_id # FeltZero /\ HasUndecodable(RecordAt(k))) =>
            /\ \A j \in DOMAIN RecordAt(k).models :
                  DecodablePosition(RecordAt(k).models[j]) =>
                      \E i \in EventsFrom(k) : evPositionUpdated[i].idx = j
            /\ HasSuccessorInFrame(k) => k < Len(handled)
            /\ pc # "panicked"

-----------------------------------------------------------------------------
(* C7 *)

\* the model name selects neither the Position arm nor the ignored arm
Unrecognized(m) == m.name \notin {"di-Position", "di-Moves"}

\* a record that is not the sentinel and carries two models, a decodable
\* di-Position and an unrecognized one, in either order
PositionAndUnknown(record) ==
    /\ record.entity_id # FeltZero
    /\ Len(record.models) = 2
    /\ \E i, j \in {1, 2} :
          /\ i # j
          /\ DecodablePosition(record.models[i])
          /\ Unrecognized(record.models[j])

\* C7: a record with a decodable di-Position model and an unrecognized model,
\* in either order, writes exactly one PositionUpdatedEvent and reports
\* exactly one model as not handled; it does not panic and the record after
\* it in the frame is reached.
C7_OneEventOneReport ==
    \A k \in DOMAIN handled :
        PositionAndUnknown(RecordAt(k)) =>
            /\ Cardinality(EventsFrom(k)) = 1
            /\ \A i \in EventsFrom(k) : DecodablePosition(SourceModel(evPositionUpdated[i]))
            /\ handled[k].reports = 1
            /\ handled[k].dispatched = 2
            /\ ~handled[k].panicked
            /\ HasSuccessorInFrame(k) => k < Len(handled)

\* both orders handled in one frame, the unrecognized model first in the
\* first record, and both records got their instruction
C7_Witness ==
    \E k \in DOMAIN handled :
        /\ PositionAndUnknown(RecordAt(k))
        /\ Unrecognized(RecordAt(k).models[1])
        /\ HasSuccessorInFrame(k)
        /\ k < Len(handled)
        /\ PositionAndUnknown(RecordAt(k + 1))
        /\ Unrecognized(RecordAt(k + 1).models[2])
        /\ InstructionsFrom(k) # {}
        /\ InstructionsFrom(k + 1) # {}

-----------------------------------------------------------------------------
(* C8 *)

\* C8: the initial bulk query is issued at most once, and not before a
\* DojoInitializedEvent has been read.
C8_InitialQueryAtMostOnce ==
    /\ retrieveCalls <= 1
    /\ retrieveCalls <= initCursor
    /\ initCursor <= evInitialized

\* the query was issued and three records were handled in two or more frames
\* after it
C8_Witness ==
    /\ retrieveCalls = 1
    /\ Len(handled) >= 3
    /\ handled[1].upto < handled[Len(handled)].upto
    /\ pc = "frame"

-----------------------------------------------------------------------------
(* C9 *)

\* the instruction comes from an earlier record, or from an earlier model of
\* the same record
Before(a, b) == a.src < b.src \/ (a.src = b.src /\ a.idx < b.idx)

\* C9: instructions are issued in the arrival order of the records they come
\* from, one per PositionUpdatedEvent and in the order of the events, and
\* the events of a frame are all turned into instructions in that frame.
C9_ArrivalOrder ==
    /\ \A i, j \in DOMAIN viewLog : i < j => Before(viewLog[i], viewLog[j])
    /\ \A i, j \in DOMAIN evPositionUpdated :
          i < j => Before(evPositionUpdated[i], evPositionUpdated[j])
    /\ Len(viewLog) <= Len(evPositionUpdated)
    /\ \A i \in DOMAIN viewLog :
          /\ viewLog[i].src = evPositionUpdated[i].src
          /\ viewLog[i].idx = evPositionUpdated[i].idx
          /\ viewLog[i].src <= entityCursor
    /\ pc \in {"frame", "apply_deferred"} => Len(viewLog) = Len(evPositionUpdated)

\* instructions from two records of one frame and from a record of a later
\* frame
C9_Witness ==
    \E i, j, k \in DOMAIN viewLog :
        /\ viewLog[i].src < viewLog[j].src /\ viewLog[j].src < viewLog[k].src
        /\ handled[viewLog[i].src].upto = handled[viewLog[j].src].upto
        /\ handled[viewLog[j].src].upto < handled[viewLog[k].src].upto

-----------------------------------------------------------------------------
(* C10 *)

\* handle_dojo_setup has run
SetupDone == pc \notin {"setup_dojo_config", "handle_dojo_setup"}

\* C10: with the dev-account flag false connect_predeployed_account is never
\* called and account_connected stays false; with the flag true the account
\* connection is initiated exactly once, after the Torii connection.
C10_AccountOnlyWithDevFlag ==
    /\ CallCount("connect_predeployed_account") <= 1
    /\ ~config.use_dev_account =>
          /\ CallCount("connect_predeployed_account") = 0
          /\ ~account_connected
    /\ (config.use_dev_account /\ SetupDone) =>
          /\ dojoCalls = << "connect_torii", "connect_predeployed_account" >>
          /\ account_connected
    /\ ~SetupDone => dojoCalls = << >>

\* the flag is false, the setup is done and records are being handled
C10_Witness ==
    /\ ~config.use_dev_account
    /\ env_use_dev = Some("false")
    /\ torii_connected
    /\ handled # << >>
    /\ pc = "frame"

\* ---------------------------------------------------------------------------
\* The command dispatcher (handle_keyboard_input)
\* ---------------------------------------------------------------------------

\* the keyboard events read so far that are presses of Space or of an arrow
QueuingPresses ==
    SelectSeq(keysRead, LAMBDA event :
        /\ event.state = "Pressed"
        /\ event.key_code \in {"Space", "ArrowLeft", "ArrowRight", "ArrowUp", "ArrowDown"})

\* C11: every press of Space queues exactly one transaction of exactly one
\* call, to the configured action contract, with the spawn selector and an
\* empty calldata, whatever the connection flags, the tracker and the earlier
\* presses are.
C11_SpawnQueuesOneCall ==
    /\ Len(txQueue) = Len(QueuingPresses)
    /\ \A i \in 1..Len(QueuingPresses) :
          QueuingPresses[i].key_code = "Space" =>
             /\ i \in DOMAIN txQueue
             /\ txQueue[i] = << [to |-> config.action_address,
                                 selector |-> "spawn",
                                 calldata |-> << >>] >>

\* Space is pressed after an arrow press, with the Torii connection up and an
\* entity in the tracker
C11_Witness ==
    /\ keysRead = << [key_code |-> "ArrowLeft", state |-> "Pressed"],
                     [key_code |-> "Space", state |-> "Pressed"] >>
    /\ Len(txQueue) = 2
    /\ torii_connected
    /\ existing_entities = {PlayerId}

\* the direction the text gives to each arrow key
DirectionTable ==
    [ArrowLeft |-> 0, ArrowRight |-> 1, ArrowUp |-> 2, ArrowDown |-> 3]

\* C12: every press of an arrow key queues exactly one call to the action
\* contract with the move selector and one calldata entry, 0 for left, 1 for
\* right, 2 for up and 3 for down, and the keyboard system never reaches its
\* panic (under SpecInput no delivered record can make a system panic).
C12_MoveQueuesDirection ==
    /\ pc # "panicked"
    /\ Len(txQueue) = Len(QueuingPresses)
    /\ \A i \in 1..Len(QueuingPresses) :
          QueuingPresses[i].key_code \in DOMAIN DirectionTable =>
             /\ i \in DOMAIN txQueue
             /\ txQueue[i] = << [to |-> config.action_address,
                                 selector |-> "move",
                                 calldata |-> << DirectionTable[QueuingPresses[i].key_code] >>] >>

\* up then down have been pressed and both calls are queued
C12_Witness ==
    /\ keysRead = << [key_code |-> "ArrowUp", state |-> "Pressed"],
                     [key_code |-> "ArrowDown", state |-> "Pressed"] >>
    /\ Len(txQueue) = 2
    /\ txQueue[1][1].calldata = << 2 >>
    /\ txQueue[2][1].calldata = << 3 >>

-----------------------------------------------------------------------------
(* C13 *)

\* the three records of the end-to-end scenario, in arrival order
TraceRecords ==
    << Record(FeltZero, <<PosNoY, PosA>>),
       Record(PlayerId, <<PosA>>),
       Record(PlayerId, <<PosB>>) >>

\* the instruction at position i of the log, without its bookkeeping fields
Instruction(i) ==
    [op |-> viewLog[i].op, id |-> viewLog[i].id, x |-> viewLog[i].x, y |-> viewLog[i].y]

\* C13: once the sentinel record, the record of identifier 7 with Position
\* {7,3,4} and the record of identifier 7 with Position {7,5,4} have arrived
\* in that order and been handled, the sentinel record has no instruction, the
\* second has exactly create(7,3,4), the third has exactly move(7,5,4), and
\* there is exactly one visual entity, of identifier 7, at (5,4).
C13_EndToEndTrace ==
    ( /\ evEntityUpdated = TraceRecords
      /\ Len(handled) = 3
      /\ pc = "frame" ) =>
        /\ InstructionsFrom(1) = {}
        /\ InstructionsFrom(2) = {1}
        /\ Instruction(1) = [op |-> "create", id |-> PlayerId, x |-> 3, y |-> 4]
        /\ InstructionsFrom(3) = {2}
        /\ Instruction(2) = [op |-> "move", id |-> PlayerId, x |-> 5, y |-> 4]
        /\ world = << [id |-> PlayerId, x |-> 5, y |-> 4] >>

\* the same scenario with the second record handled in a frame before the
\* frame of the third
C13_SeparateFrames ==
    ( /\ evEntityUpdated = TraceRecords
      /\ Len(handled) = 3
      /\ handled[2].upto < handled[3].upto
      /\ pc = "frame" ) =>
        /\ InstructionsFrom(1) = {}
        /\ InstructionsFrom(2) = {1}
        /\ Instruction(1) = [op |-> "create", id |-> PlayerId, x |-> 3, y |-> 4]
        /\ InstructionsFrom(3) = {2}
        /\ Instruction(2) = [op |-> "move", id |-> PlayerId, x |-> 5, y |-> 4]
        /\ world = << [id |-> PlayerId, x |-> 5, y |-> 4] >>

-----------------------------------------------------------------------------
(* C14 *)

\* the positions of a sequence of keyboard events that are presses of a key
\* of the set
PressesOf(events, keys) ==
    {i \in DOMAIN events : events[i].state = "Pressed" /\ events[i].key_code \in keys}

\* C14: a run of handle_keyboard_input queues one transaction per press of
\* Space or of an arrow in its batch and requests one subscription per press
\* of S, and nothing for any other event (another key, or a release of any
\* key), wherever that event stands in the batch; the run leaves the tracker,
\* the visual entities and the connection state unchanged.
C14_OtherEventsAreNoOps ==
    [][ keysRead' # keysRead =>
          LET batch == SubSeq(keysRead', Len(keysRead) + 1, Len(keysRead'))
          IN  /\ Len(txQueue') = Len(txQueue)
                    + Cardinality(PressesOf(batch, {"Space", "ArrowLeft", "ArrowRight",
                                                    "ArrowUp", "ArrowDown"}))
              /\ SubSeq(txQueue', 1, Len(txQueue)) = txQueue
              /\ subscriptions' = subscriptions + Cardinality(PressesOf(batch, {"KeyS"}))
              /\ UNCHANGED << existing_entities, world, commands >>
              /\ UNCHANGED << config, torii_connected, account_connected, last_error >>
      ]_vars

\* a release of Space and a press of another key have been read, then a press
\* of S, while an entity is tracked: one subscription, no transaction
C14_Witness ==
    /\ Len(keysRead) = 2
    /\ keysRead[1] \in { [key_code |-> "Space", state |-> "Released"],
                          [key_code |-> "KeyA", state |-> "Pressed"] }
    /\ keysRead[2] = [key_code |-> "KeyS", state |-> "Pressed"]
    /\ txQueue = << >>
    /\ subscriptions = 1
    /\ existing_entities = {PlayerId}

-----------------------------------------------------------------------------
(* C15 *)

\* the identifiers carried by the visual entities
VisualIds(entities) == {entities[i].id : i \in DOMAIN entities}

\* C15: across every step the tracker after the step contains the tracker
\* before it, every visual entity before the step is still there after it
\* (same place in the world, same identifier), and every instruction issued
\* is a create or a move, never a destroy.
C15_TrackerOnlyGrows ==
    [][ /\ existing_entities \subseteq existing_entities'
        /\ Len(world) <= Len(world')
        /\ \A i \in DOMAIN world : world'[i].id = world[i].id
        /\ \A i \in DOMAIN viewLog' : viewLog'[i].op \in {"create", "move"}
      ]_vars

\* two identifiers are tracked and a third update moved one of them
C15_Witness ==
    /\ Cardinality(existing_entities) = 2
    /\ Len(viewLog) = 3
    /\ viewLog[3].op = "move"
    /\ Cardinality(VisualIds(world)) = 2
    /\ pc = "frame"

-----------------------------------------------------------------------------
(* C16 *)

\* C16: until handle_dojo_setup has run both connection flags are false;
\* once it has run torii_connected is true and account_connected equals the
\* dev-account flag; no step turns a flag from true to false; the account is
\* never connected without Torii, neither in the state nor in a logged
\* status; handle_dojo_setup never reports connection issues.
C16_ConnectionLifecycle ==
    /\ [] ( /\ ~SetupDone => (~torii_connected /\ ~account_connected)
            /\ SetupDone => ( /\ torii_connected
                              /\ account_connected = config.use_dev_account
                              /\ setup_report = "initialized" )
            /\ ConnectionStatus(torii_connected, account_connected) # "AccountOnly"
            /\ \A i \in DOMAIN statusLog : statusLog[i].status # "AccountOnly"
            /\ setup_report # "connection issues" )
    /\ [][ /\ torii_connected => torii_connected'
           /\ account_connected => account_connected' ]_vars

\* the setup ran with the dev-account flag false, the status was logged as
\* Torii only, and records have been handled since
C16_Witness ==
    /\ SetupDone
    /\ ~config.use_dev_account
    /\ torii_connected
    /\ ~account_connected
    /\ setup_report = "initialized"
    /\ Len(statusLog) = 1
    /\ statusLog[1].status = "ToriiOnly"
    /\ handled # << >>

-----------------------------------------------------------------------------
(* C17 *)

\* C17: at every frame boundary, the deferred spawns being applied, the
\* identifiers of the tracker are exactly the identifiers carried by the
\* visual entities, and every one of them is carried by exactly one entity.
C17_TrackerMatchesEntities ==
    pc = "frame" =>
        /\ commands = << >>
        /\ VisualIds(world) = existing_entities
        /\ \A id \in existing_entities : Cardinality(Matching(world, id)) = 1

\* two identifiers have been created, in different frames, and one of them
\* has been updated since
C17_Witness ==
    /\ pc = "frame"
    /\ Cardinality(existing_entities) = 2
    /\ Len(world) = 2
    /\ Len(viewLog) = 3
    /\ handled[viewLog[1].src].upto < handled[viewLog[2].src].upto

-----------------------------------------------------------------------------
(* C18 *)

\* C18: last_error is None in every reachable state, whichever of the
\* systems have run (configuration loading, connection setup, keyboard
\* dispatch, event handling), and no status report carries the error line.
C18_NoErrorEverSet ==
    /\ ~last_error.some
    /\ \A i \in DOMAIN statusLog : ~statusLog[i].error.some

\* the status has been reported, keys have been dispatched and a record has
\* been handled
C18_Witness ==
    /\ statusLog # << >>
    /\ txQueue # << >>
    /\ subscriptions > 0
    /\ handled # << >>
    /\ existing_entities # {}
    /\ ~last_error.some

====
